---- MODULE Spec2Model ----
(***************************************************************************)
(* Model of the ACIS entity loader of ezdxf (src/src/ezdxf/_acis/          *)
(* entities.py): the entity-type registry, the memoizing Loader, the       *)
(* SAB/SAT load_entities loops and the load entry points.                  *)
(*                                                                         *)
(* The tokenizers (sab.parse_sab, sat.parse_sat), the data parsers         *)
(* (SabDataParser, SatDataParser) and every entity subtype other than Body *)
(* are not part of the sources at hand.  The tokenizer is represented by   *)
(* its output (an ordered record list), the data parser by the Field       *)
(* Cursor contract of the specification, and the subtypes by one           *)
(* registrable class, Face, whose parse step reads an entity reference     *)
(* through the cursor and resolves it with the entity factory.             *)
(***************************************************************************)
EXTENDS Integers, Sequences, FiniteSets, TLC

\* ------------------------------------------------------------------ bounds
\* Longest record stream the tokenizer hands over.
MaxRecords == 2
\* How often a client that holds a loader instance calls load_entities on it.
MaxRuns == 2
\* Longest field list of a record under the cursor.
MaxFields == 3
\* Factory calls a client makes on one loader.
MaxCalls == 3

\* Files one Options object reads before a reset.
MaxPaths == 2
\* Longest OFF text, in lines.
MaxLines == 4
\* Most faces a tessellation yields.
MaxFaces == 2

\* --------------------------------------------------------------- constants
\* AcisEntity.attributes = None: the absent node reference.
None == 0
\* The null-pointer sentinel of a record's attribute reference.
NullPtr == 0

\* ------------------------------------------------------------ entity types
\* The classes of the model: AcisEntity (generic node), Body, and Face, an
\* entity subtype supplied by a geometry-type module through register().
Classes == {"AcisEntity", "Body", "Face"}

\* cls.type, the class attribute used as registry key.
ClassType(cls) ==
    CASE cls = "Body" -> "body"
      [] cls = "Face" -> "face"
      [] OTHER -> "unsupported-entity"

\* isinstance(e, AcisEntity): true of every node.
IsAcisEntityClass(cls) == cls \in Classes

\* isinstance(e, Body) by the class of e.
IsBodyClass(cls) == cls = "Body"

\* Type names a tokenizer record may carry.
TypeNames == {"body", "face", "unknown-xyz"}

\* The registry as module initialisation leaves it: {} and then @register Body.
EmptyRegistry == [t \in {} |-> "AcisEntity"]

\* ENTITY_TYPES.setdefault(cls.type, cls): the first registration of a name
\* stays.
RegistryPutIfAbsent(reg, cls) ==
    [t \in DOMAIN reg \cup {ClassType(cls)} |->
        IF t \in DOMAIN reg THEN reg[t] ELSE cls]

\* ENTITY_TYPES[cls.type] = cls
RegistryPut(reg, cls) ==
    [t \in DOMAIN reg \cup {ClassType(cls)} |->
        IF t = ClassType(cls) THEN cls ELSE reg[t]]

InitialRegistry == RegistryPut(EmptyRegistry, "Body")

\* Every registry register() calls can build from the classes of the model,
\* the empty one included.
RegistrableClasses == {"Body", "Face"}
Registries ==
    {[t \in {ClassType(c) : c \in S} |->
        CHOOSE c \in S : ClassType(c) = t] : S \in SUBSET RegistrableClasses}

\* The classes register() may be called with: the classes of the model and a
\* subclass of AcisEntity that declares no type of its own, so that its type
\* is the inherited "unsupported-entity", the type of AcisEntity itself.
RegisterArguments == Classes \cup {"UntypedEntity"}

\* A failed look-up (KeyError), as a class no node can be built from.
KeyErrorMark == "<KeyError>"

\* dict.get(entity_type, default) with a mutation: a strict look-up.
RegistryGetStrict(reg, entity_type, default) ==
    IF entity_type \in DOMAIN reg THEN reg[entity_type] ELSE KeyErrorMark

\* ENTITY_TYPES.get(entity_type, AcisEntity)
RegistryGet(reg, entity_type, default) ==
    IF entity_type \in DOMAIN reg THEN reg[entity_type] ELSE default

\* ----------------------------------------------------------------- records
IntField == [kind |-> "int", val |-> 7]
PtrField(j) == [kind |-> "ptr", val |-> j]

\* Field lists of a record in a stream of n records: empty, one integer, or
\* one entity reference to a record of the stream.
FieldLists(n) == {<<>>, <<IntField>>} \cup {<<PtrField(j)>> : j \in 1..n}

\* The records a tokenizer can emit at one position of a stream of n records,
\* without the id.  Only Face.parse reads fields (AcisEntity.parse is `pass`),
\* so the other records are enumerated with an empty field list.
RecordShapes(n) ==
    {[name |-> t, attributes |-> a, data |-> d] :
        t \in TypeNames \ {"face"}, a \in 0..n, d \in {<<>>}}
    \cup
    {[name |-> "face", attributes |-> a, data |-> d] :
        a \in 0..n, d \in FieldLists(n)}

\* Streams of exactly n records; record i carries the numeric id i - 1.
StreamsOfLen(n) ==
    {[i \in 1..n |->
        [id |-> i - 1, name |-> f[i].name,
         attributes |-> f[i].attributes, data |-> f[i].data]] :
     f \in [1..n -> RecordShapes(n)]}

Streams == UNION {StreamsOfLen(n) : n \in 0..MaxRecords}

\* The values handed to load(): their Python type and, for bytes and text,
\* the record stream the tokenizer makes of them.
DataKinds == {"bytes", "bytearray", "str", "other"}
Inputs ==
    {[kind |-> k, records |-> s] : k \in DataKinds \ {"other"}, s \in Streams}
    \cup {[kind |-> "other", records |-> <<>>]}

\* Memory layouts of the record objects: id(record) rises or falls along the
\* stream.
Layouts == {"asc", "desc"}

VARIABLES
    ENTITY_TYPES,   \* the registry: type name -> class
    data,           \* the value handed to load() or to a loader constructor
    layout,         \* how id() numbers the record objects
    pc,             \* idle, constructed, loading, loaded, returned, raised
    owner,          \* none, load (the load entry points), client (direct use)
    loader,         \* none, SabLoader, SatLoader
    records,        \* self.records
    entities,       \* self.entities: insertion-ordered <<[uid, node]>>
    heap,           \* the node objects, by handle 1..Len(heap)
    pos,            \* index of the next record of the for loop
    runs,           \* number of load_entities calls entered on the loader
    result,         \* [given, list]: what bodies() returned to the caller
    error,          \* the exception that reached the caller
    calls,          \* history of get_entity calls: <<[uid, type, ret]>>
    trace,          \* history of the calls made by the entry points
    parsed,         \* nodes whose parse was invoked by this load_entities call
    pair,           \* two loaders at work on one stream (SpecPair)
    cursor,         \* a data parser under a sequence of reads (SpecCursor)
    steps,          \* what the last pass of the for loop did, in order
    addon           \* the state of the modules beside the loader

\* The variables the single loader leaves alone.
aux == <<pair, cursor, addon>>

vars == <<ENTITY_TYPES, data, layout, pc, owner, loader, records, entities,
          heap, pos, runs, result, error, calls, trace, parsed, pair, cursor,
          steps, addon>>

\* No list was returned to the caller.
NoResult == [given |-> FALSE, list |-> <<>>]

\* id(record) of the i-th record object of a stream of n records.
id_(lay, n, i) ==
    CASE lay = "asc" -> i
      [] lay = "desc" -> n + 1 - i
      [] OTHER -> n + i

\* ------------------------------------------------------------------- nodes
\* A fresh instance of cls: the class attributes of AcisEntity are its
\* defaults (attributes = None; id is declared and not set).  ref is the
\* field Face.parse fills.
NewNode(cls) ==
    [cls |-> cls, has_id |-> FALSE, id |-> 0, attributes |-> None, ref |-> None]

\* uid in self.entities
HasKey(ents, uid) == \E k \in 1..Len(ents) : ents[k].uid = uid

\* self.entities[uid]
Lookup(ents, uid) ==
    LET k == CHOOSE k \in 1..Len(ents) : ents[k].uid = uid
    IN  ents[k].node

\* self.entities = {uid: node}: the map is replaced by one of a single entry.
DictSetAlone(ents, uid, node) == <<[uid |-> uid, node |-> node]>>

\* self.entities[uid] = node: a new key is appended (a dict keeps insertion
\* order), an existing key keeps its place and takes the new value.
DictSet(ents, uid, node) ==
    IF HasKey(ents, uid)
    THEN [k \in 1..Len(ents) |->
            IF ents[k].uid = uid THEN [uid |-> uid, node |-> node] ELSE ents[k]]
    ELSE Append(ents, [uid |-> uid, node |-> node])

\* The part of the program state a record's processing reads and writes:
\*   reg (ENTITY_TYPES), entities, heap, calls, parsed, ret (the value
\*   returned by the last call), err (the exception in flight, "none" when
\*   there is none), arena (where the caller's new objects are placed).
Store(reg, ents, hp, cs, ps) ==
    [reg |-> reg, entities |-> ents, heap |-> hp, calls |-> cs, parsed |-> ps,
     ret |-> None, err |-> "none", arena |-> 0, steps |-> <<>>]

\* The store with one more step in the log of the pass: what was done, on
\* which node, with which fields, and the node as it was then.
Logged(st, op, node, fields) ==
    [st EXCEPT !.steps = Append(@, [op |-> op, node |-> node,
                                    fields |-> fields, was |-> st.heap[node]])]

\* A place of the heap that holds no object.
FreeSlot == NewNode("<free>")

\* The handle of a new object.  Which free place a new object takes does not
\* matter to the program, which never compares or orders nodes by address:
\* a single loader (arena 0) takes the next place, and of two loaders at work
\* together loader 1 takes the places 1, 3, 5, ... and loader 2 the places
\* 2, 4, 6, ... in turn, so that a node's handle does not depend on how the
\* steps of the other loader fell.
NewHandle(hp, arena) ==
    IF arena = 0 THEN Len(hp) + 1
    ELSE 2 * Cardinality({a \in 1..Len(hp) :
                            a % 2 = arena % 2 /\ hp[a] # FreeSlot}) + arena

\* The heap with a new object at handle a.
Allocate(hp, a, node) ==
    [i \in 1..(IF a > Len(hp) THEN a ELSE Len(hp)) |->
        IF i = a THEN node
        ELSE IF i <= Len(hp) THEN hp[i] ELSE FreeSlot]

\* dict.setdefault in the place of dict.get: a missing name is stored.
RegistryAfterSetdefault(reg, entity_type, default) ==
    IF entity_type \in DOMAIN reg THEN reg
    ELSE [t \in DOMAIN reg \cup {entity_type} |->
            IF t = entity_type THEN default ELSE reg[t]]

\* ENTITY_TYPES after ENTITY_TYPES.get(entity_type, AcisEntity): get stores
\* nothing.
RegistryAfterGet(reg, entity_type, default) == reg

\* get_entity with the except branch building the node: the shared tail.
CreateEntity(st, uid, entity_type) ==
    LET cls == RegistryGet(st.reg, entity_type, "AcisEntity")
        node == NewHandle(st.heap, st.arena)
    IN  IF cls = KeyErrorMark
        THEN [st EXCEPT !.err = "KeyError"]
        ELSE Logged([st EXCEPT
                !.reg = RegistryAfterGet(@, entity_type, "AcisEntity"),
                !.heap = Allocate(@, node, NewNode(cls)),
                !.entities = DictSet(@, uid, node),
                !.calls = Append(@, [uid |-> uid, type |-> entity_type,
                                     ret |-> node]),
                !.ret = node], "get_entity", node, <<>>)

\* get_entity that honours the type name of every call: a node stored under
\* the key is replaced when it is not of the class of the name asked for.
get_entity_by_type(st, uid, entity_type) ==
    IF /\ HasKey(st.entities, uid)
       /\ st.heap[Lookup(st.entities, uid)].cls
             = RegistryGet(st.reg, entity_type, "AcisEntity")
    THEN LET node == Lookup(st.entities, uid)
         IN  Logged([st EXCEPT
                !.calls = Append(@, [uid |-> uid, type |-> entity_type,
                                     ret |-> node]),
                !.ret = node], "get_entity", node, <<>>)
    ELSE CreateEntity(st, uid, entity_type)

\* get_entity with the memo look-up lost: every call builds a node.
get_entity_nocache(st, uid, entity_type) == CreateEntity(st, uid, entity_type)

\* Loader.get_entity(uid, entity_type)
get_entity(st, uid, entity_type) ==
    IF HasKey(st.entities, uid)
    THEN LET node == Lookup(st.entities, uid)
         IN  Logged([st EXCEPT
                !.calls = Append(@, [uid |-> uid, type |-> entity_type,
                                     ret |-> node]),
                !.ret = node], "get_entity", node, <<>>)
    ELSE CreateEntity(st, uid, entity_type)

RECURSIVE SelectBodies(_, _, _)
SelectBodies(ents, hp, k) ==
    IF k > Len(ents) THEN <<>>
    ELSE (IF IsBodyClass(hp[ents[k].node].cls) THEN <<ents[k].node>> ELSE <<>>)
         \o SelectBodies(ents, hp, k + 1)

\* bodies() with the isinstance filter lost.
bodies_all(ents, hp) == [k \in 1..Len(ents) |-> ents[k].node]

\* The entries of the map in the order of their keys, as a map ordered by key
\* would hand them out.
SortByUid(ents) ==
    [k \in 1..Len(ents) |->
        CHOOSE e \in {ents[j] : j \in 1..Len(ents)} :
            Cardinality({j \in 1..Len(ents) : ents[j].uid < e.uid}) = k - 1]

\* bodies() over a map that iterates in key order.
bodies_sorted_by_uid(ents, hp) == SelectBodies(SortByUid(ents), hp, 1)

\* Loader.bodies(): [e for e in self.entities.values() if isinstance(e, Body)]
bodies(ents, hp) == SelectBodies(ents, hp, 1)

\* ------------------------------------------------------------ field cursor
\* The data parser over one record's fields: the fields and the index of the
\* next one.
Cursor(fields) == [fields |-> fields, index |-> 1]

\* No exception.
NoFormatError ==
    [type |-> "none", position |-> 0, has_record |-> FALSE, record |-> 0]

\* The FormatError of a failed read at the cursor: the parser is constructed
\* from the record's fields and the version, SabDataParser(sab_entity.data,
\* self.version), and load_entities catches nothing, so the exception can name
\* the field position and no record id.
FormatErrorOf(cur) ==
    [type |-> "FormatError", position |-> cur.index, has_record |-> FALSE,
     record |-> 0]

\* A read that returns the field under the cursor and leaves the cursor there.
ReadFieldInPlace(cur, kind) ==
    IF cur.index > Len(cur.fields) \/ cur.fields[cur.index].kind # kind
    THEN [ok |-> FALSE, val |-> 0, cursor |-> cur, err |-> FormatErrorOf(cur)]
    ELSE [ok |-> TRUE, val |-> cur.fields[cur.index].val, cursor |-> cur,
          err |-> NoFormatError]

\* Read the next field as `kind`: one field is consumed; past the end or on
\* another kind the read fails (FormatError).
ReadField(cur, kind) ==
    IF cur.index > Len(cur.fields) \/ cur.fields[cur.index].kind # kind
    THEN [ok |-> FALSE, val |-> 0, cursor |-> cur, err |-> FormatErrorOf(cur)]
    ELSE [ok |-> TRUE, val |-> cur.fields[cur.index].val,
          cursor |-> [cur EXCEPT !.index = @ + 1], err |-> NoFormatError]

\* Face.parse(parser, entity_factory): read one entity reference and resolve
\* it with the factory, by the referenced record's identity and type name.
Face_parse(st, entity, fields, recs, lay) ==
    LET r == ReadField(Cursor(fields), "ptr")
    IN  IF ~r.ok
        THEN [st EXCEPT !.err = "FormatError"]
        ELSE LET g == get_entity(st, id_(lay, Len(recs), r.val),
                                 recs[r.val].name)
             IN  IF g.err # "none" THEN g
                 ELSE [g EXCEPT !.heap[entity].ref = g.ret]

\* entity.parse(args, entity_factory): AcisEntity.parse is `pass`, and Body
\* inherits it.
parse(st, entity, fields, recs, lay) ==
    LET s == Logged([st EXCEPT !.parsed = Append(@, entity)],
                    "parse", entity, fields)
    IN  IF s.heap[entity].cls = "Face"
        THEN Face_parse(s, entity, fields, recs, lay)
        ELSE s

\* ----------------------------------------------------------- load_entities
\* The arguments of the factory call that resolves a record's attributes:
\* entity_factory(id(sab_entity), sab_entity.name).
attributes_args(recs, lay, i) ==
    [uid |-> id_(lay, Len(recs), i), name |-> recs[i].name]

\* The attributes step with the null-pointer test lost.
attach_attributes_always(st, entity, recs, lay, i) ==
    LET a == attributes_args(recs, lay, i)
        g == get_entity(st, a.uid, a.name)
    IN  IF g.err # "none" THEN g
        ELSE Logged([g EXCEPT !.heap[entity].attributes = g.ret],
                    "attributes", entity, <<>>)

\* attributes = sab_entity.attributes
\* if not attributes.is_null_ptr: entity.attributes = entity_factory(...)
attach_attributes(st, entity, recs, lay, i) ==
    IF recs[i].attributes # NullPtr
    THEN LET a == attributes_args(recs, lay, i)
             g == get_entity(st, a.uid, a.name)
         IN  IF g.err # "none" THEN g
             ELSE Logged([g EXCEPT !.heap[entity].attributes = g.ret],
                         "attributes", entity, <<>>)
    ELSE st

\* The id taken from id(sab_entity), the memo key, not from sab_entity.id.
assign_id_from_uid(st, entity, recs, lay, i) ==
    Logged([st EXCEPT !.heap[entity].has_id = TRUE,
                      !.heap[entity].id = id_(lay, Len(recs), i)],
           "id", entity, <<>>)

\* entity.id = sab_entity.id
assign_id(st, entity, recs, lay, i) ==
    Logged([st EXCEPT !.heap[entity].has_id = TRUE,
                      !.heap[entity].id = recs[i].id],
           "id", entity, <<>>)

\* The for loop leaving out every second record.
loop_next_skipping(i) == i + 2

\* for sab_entity in self.records: the index of the record after record i.
loop_next(i) == i + 1

\* A pass of the loop that calls parse right after get_entity, before the id
\* and the attributes are set.
load_entities_body_parse_first(st, recs, lay, i) ==
    LET s1 == get_entity(st, id_(lay, Len(recs), i), recs[i].name)
    IN  IF s1.err # "none" THEN s1
        ELSE
        LET entity == s1.ret
            s2 == parse(s1, entity, recs[i].data, recs, lay)
        IN  IF s2.err # "none" THEN s2
            ELSE attach_attributes(assign_id(s2, entity, recs, lay, i),
                                   entity, recs, lay, i)

\* One pass of the for loop of SabLoader.load_entities over record i.
load_entities_body(st, recs, lay, i) ==
    LET s1 == get_entity(st, id_(lay, Len(recs), i), recs[i].name)
    IN  IF s1.err # "none" THEN s1
        ELSE
        LET entity == s1.ret
            s2 == assign_id(s1, entity, recs, lay, i)
            s3 == attach_attributes(s2, entity, recs, lay, i)
        IN  IF s3.err # "none" THEN s3
            ELSE parse(s3, entity, recs[i].data, recs, lay)

\* A pass of the loop of the text loader that leaves the attributes out.
load_entities_body_without_attributes(st, recs, lay, i) ==
    LET s1 == get_entity(st, id_(lay, Len(recs), i), recs[i].name)
    IN  IF s1.err # "none" THEN s1
        ELSE LET entity == s1.ret
                 s2 == assign_id(s1, entity, recs, lay, i)
             IN  parse(s2, entity, recs[i].data, recs, lay)

\* One pass of the for loop of SatLoader.load_entities over record i: the
\* statements of the binary loader's loop, over sat_entity and SatDataParser.
SatLoader_load_entities_body(st, recs, lay, i) ==
    LET s1 == get_entity(st, id_(lay, Len(recs), i), recs[i].name)
    IN  IF s1.err # "none" THEN s1
        ELSE
        LET entity == s1.ret
            s2 == assign_id(s1, entity, recs, lay, i)
            s3 == attach_attributes(s2, entity, recs, lay, i)
        IN  IF s3.err # "none" THEN s3
            ELSE parse(s3, entity, recs[i].data, recs, lay)

\* loader.load_entities(): the loop body of the class of the loader.
Loader_load_entities_body(cls, st, recs, lay, i) ==
    IF cls = "SatLoader"
    THEN SatLoader_load_entities_body(st, recs, lay, i)
    ELSE load_entities_body(st, recs, lay, i)

\* ------------------------------------------------------------ entry points
\* load() with the str branch routed to the binary loader.
load_dispatch_sab_only(kind) ==
    IF kind \in {"bytes", "bytearray", "str"} THEN "SabLoader" ELSE "TypeError"

\* load(data): isinstance(data, (bytes, bytearray)) -> SabLoader.load,
\* isinstance(data, str) -> SatLoader.load, otherwise raise TypeError.
load_dispatch(kind) ==
    IF kind \in {"bytes", "bytearray"} THEN "SabLoader"
    ELSE IF kind = "str" THEN "SatLoader"
    ELSE "TypeError"

\* An exception caught by the entry point, which starts the load over.
propagate_and_retry(err) == [pc |-> "idle", error |-> err]

\* An exception of load_entities swallowed by the entry point, which goes on
\* to bodies().
propagate_swallowed(err) == [pc |-> "loaded", error |-> err]

\* SabLoader.load / SatLoader.load / load hold no try statement: an exception
\* raised under load_entities ends the call and reaches the caller.
propagate(err) == [pc |-> "raised", error |-> err]

\* The entry point calling load_entities again after it returned.
may_enter_load_entities_twice(own, p, r) ==
    \/ p = "constructed"
    \/ p = "returned" /\ r < MaxRuns

\* Who calls load_entities, and when: the classmethod load calls it once,
\* right after the constructor; a client that built the loader itself holds
\* the instance and may call it again after it has taken the bodies (nothing
\* in the loader refuses).
may_enter_load_entities(own, p, r) ==
    \/ p = "constructed"
    \/ own = "client" /\ p = "returned" /\ r < MaxRuns

\* load_entities from record i on, as one call: the passes of the for loop up
\* to the end of the stream or to the first exception.
RECURSIVE load_entities_from(_, _, _, _, _)
load_entities_from(cls, st, recs, lay, i) ==
    IF i > Len(recs) THEN st
    ELSE LET s == Loader_load_entities_body(cls, st, recs, lay, i)
         IN  IF s.err # "none" THEN s
             ELSE load_entities_from(cls, s, recs, lay, loop_next(i))

\* cls.load(data) as one call on a fresh loader: the store load_entities
\* leaves, and the list bodies() makes of it when no exception was raised.
Loader_load(cls, reg, recs, lay) ==
    LET st == load_entities_from(cls, Store(reg, <<>>, <<>>, <<>>, <<>>),
                                 recs, lay, 1)
    IN  [st |-> st,
         err |-> st.err,
         list |-> IF st.err = "none" THEN bodies(st.entities, st.heap)
                  ELSE <<>>]

\* The numeric ids of a list of nodes.
NodeIds(list, hp) == [k \in 1..Len(list) |-> hp[list[k]].id]

\* ----------------------------------------------------------------- actions
\* The two loaders of a pair: a SabLoader and a SatLoader, each given its
\* encoding of the same records.
PairLoaders == {1, 2}

LoaderClass(k) == IF k = 1 THEN "SabLoader" ELSE "SatLoader"

\* The record objects of the second tokenizer lie after those of the first:
\* objects alive at the same time have different identities.
PairLayout(k) == IF k = 1 THEN "asc" ELSE "after"

\* One dict for all instances, as a class attribute would be.
SharedSlot(k) == 1

\* self.entities = {} in Loader.__init__: the dict of instance k is its own.
MapSlot(k) == k

\* No pair of loaders is at work: heap is the nodes both loaders allocate
\* from, maps[k] the entities dict, and pc, pos, err, result the progress of
\* each load.
PairIdle ==
    [heap |-> <<>>,
     maps |-> <<<<>>, <<>>>>,
     pc |-> <<"idle", "idle">>,
     pos |-> <<0, 0>>,
     err |-> <<"none", "none">>,
     result |-> <<NoResult, NoResult>>]

\* Nothing of the other modules is in use.
AddonIdle == [module |-> "none"]

\* No data parser is open: cur is the cursor, record the id of the record it
\* was opened for, consumed the fields its reads have returned, failed whether
\* a read has raised, err the exception raised.
CursorIdle ==
    [on |-> FALSE, cur |-> Cursor(<<>>), record |-> 0, consumed |-> <<>>,
     failed |-> FALSE, err |-> NoFormatError]

InitWith(regs, lays) ==
    /\ ENTITY_TYPES \in regs
    /\ data \in Inputs
    /\ layout \in lays
    /\ pc = "idle"
    /\ owner = "none"
    /\ loader = "none"
    /\ records = <<>>
    /\ entities = <<>>
    /\ heap = <<>>
    /\ pos = 0
    /\ runs = 0
    /\ result = NoResult
    /\ error = "none"
    /\ calls = <<>>
    /\ trace = <<>>
    /\ parsed = <<>>
    /\ pair = PairIdle
    /\ cursor = CursorIdle
    /\ steps = <<>>
    /\ addon = AddonIdle

\* The module is imported (ENTITY_TYPES = {}, then @register on Body) and the
\* caller holds a value to load.
Init == InitWith({InitialRegistry}, {"asc"})

\* register(cls), called by a geometry-type module before a load.
register(cls) ==
    /\ pc = "idle"
    /\ ENTITY_TYPES' = RegistryPut(ENTITY_TYPES, cls)
    /\ UNCHANGED <<data, layout, pc, owner, loader, records, entities, heap,
                   pos, runs, result, error, calls, trace, parsed>>
    /\ UNCHANGED <<steps, aux>>

\* cls(data): the tokenizer runs, then Loader.__init__.
Construct(cls) ==
    /\ loader' = cls
    /\ records' = data.records
    /\ entities' = <<>>
    /\ pc' = "constructed"
    /\ trace' = trace \o <<"tokenize:" \o cls, "construct:" \o cls>>

\* load(data) up to the constructor of the loader it selects.
load ==
    /\ pc = "idle"
    /\ owner' = "load"
    /\ LET target == load_dispatch(data.kind)
       IN  IF target = "TypeError"
           THEN /\ pc' = propagate("TypeError").pc
                /\ error' = propagate("TypeError").error
                /\ UNCHANGED <<loader, records, entities, trace>>
           ELSE /\ Construct(target)
                /\ UNCHANGED error
    /\ UNCHANGED <<ENTITY_TYPES, data, layout, heap, pos, runs, result, calls,
                   parsed>>
    /\ UNCHANGED <<steps, aux>>

\* A client builds SabLoader(data) or SatLoader(data) itself.
client_construct ==
    /\ pc = "idle"
    /\ data.kind # "other"
    /\ owner' = "client"
    /\ Construct(IF data.kind = "str" THEN "SatLoader" ELSE "SabLoader")
    /\ UNCHANGED <<ENTITY_TYPES, data, layout, heap, pos, runs, result, error,
                   calls, parsed>>
    /\ UNCHANGED <<steps, aux>>

\* loader.load_entities() is entered: entity_factory = self.get_entity and the
\* for loop starts at the first record.
load_entities_enter ==
    /\ may_enter_load_entities(owner, pc, runs)
    /\ pc' = "loading"
    /\ pos' = 1
    /\ runs' = runs + 1
    /\ trace' = Append(trace, "load_entities")
    /\ parsed' = <<>>
    /\ steps' = <<>>
    /\ UNCHANGED <<ENTITY_TYPES, data, layout, owner, loader, records,
                   entities, heap, result, error, calls>>
    /\ UNCHANGED aux

\* One pass of the for loop; an exception of the pass leaves load_entities.
load_entities_record ==
    /\ pc = "loading"
    /\ pos <= Len(records)
    /\ LET st == Loader_load_entities_body(
                    loader, Store(ENTITY_TYPES, entities, heap, calls, parsed),
                    records, layout, pos)
       IN  /\ ENTITY_TYPES' = st.reg
           /\ entities' = st.entities
           /\ heap' = st.heap
           /\ calls' = st.calls
           /\ parsed' = st.parsed
           /\ steps' = st.steps
           /\ IF st.err # "none"
              THEN /\ pc' = propagate(st.err).pc
                   /\ error' = propagate(st.err).error
                   /\ UNCHANGED pos
              ELSE /\ pos' = loop_next(pos)
                   /\ UNCHANGED <<pc, error>>
    /\ UNCHANGED <<data, layout, owner, loader, records, runs, result, trace>>
    /\ UNCHANGED aux

\* The for loop is exhausted: load_entities returns.
load_entities_exit ==
    /\ pc = "loading"
    /\ pos > Len(records)
    /\ pc' = "loaded"
    /\ UNCHANGED <<ENTITY_TYPES, data, layout, owner, loader, records,
                   entities, heap, pos, runs, result, error, calls, trace,
                   parsed>>
    /\ UNCHANGED <<steps, aux>>

\* return loader.bodies()
bodies_return ==
    /\ pc = "loaded"
    /\ result' = [given |-> TRUE, list |-> bodies(entities, heap)]
    /\ pc' = "returned"
    /\ trace' = Append(trace, "bodies")
    /\ UNCHANGED <<ENTITY_TYPES, data, layout, owner, loader, records,
                   entities, heap, pos, runs, error, calls, parsed>>
    /\ UNCHANGED <<steps, aux>>

\* The load entry points: registrations, then load(data) and what it calls.
Next ==
    \/ \E cls \in RegistrableClasses : register(cls)
    \/ load
    \/ load_entities_enter
    \/ load_entities_record
    \/ load_entities_exit
    \/ bodies_return

Spec == Init /\ [][Next]_vars

\* The entry points and a client that builds a loader and drives it itself.
NextClient ==
    \/ \E cls \in RegistrableClasses : register(cls)
    \/ load
    \/ client_construct
    \/ load_entities_enter
    \/ load_entities_record
    \/ load_entities_exit
    \/ bodies_return

SpecClient == Init /\ [][NextClient]_vars

\* A client alone: it builds SabLoader(data) from bytes or SatLoader(data)
\* from a str and calls load_entities and bodies on the instance, again and
\* again; Body and Face are registered.
InitRerun ==
    /\ InitWith({RegistryPut(InitialRegistry, "Face")}, {"asc"})
    /\ data.kind \in {"bytes", "str"}

NextRerun ==
    \/ client_construct
    \/ load_entities_enter
    \/ load_entities_record
    \/ load_entities_exit
    \/ bodies_return

SpecRerun == InitRerun /\ [][NextRerun]_vars

\* The same program started with any registry the classes of the model can
\* make, the empty registry included (ENTITY_TYPES is a module-level dict).
InitAnyRegistry == InitWith(Registries, {"asc"})

SpecAnyRegistry == InitAnyRegistry /\ [][Next]_vars

\* The registrations alone, with every class register() can be called with.
NextRegister == \E cls \in RegisterArguments : register(cls)

SpecRegister == InitAnyRegistry /\ [][NextRegister]_vars

\* What the pair of loaders leaves alone.
single == <<data, layout, pc, owner, loader, records, entities, heap, pos,
            runs, result, error, calls, trace, parsed, cursor, steps, addon>>

\* Two clients construct a loader each on the same records and enter
\* load_entities.
pair_construct ==
    /\ pc = "idle"
    /\ pair = PairIdle
    /\ pair' = [pair EXCEPT !.maps = [k \in PairLoaders |-> <<>>],
                            !.pc = [k \in PairLoaders |-> "loading"],
                            !.pos = [k \in PairLoaders |-> 1]]
    /\ UNCHANGED ENTITY_TYPES
    /\ UNCHANGED single

\* Loader k makes one pass of its for loop.
pair_record(k) ==
    /\ pair.pc[k] = "loading"
    /\ pair.pos[k] <= Len(data.records)
    /\ LET st == Loader_load_entities_body(
                    LoaderClass(k),
                    [Store(ENTITY_TYPES, pair.maps[MapSlot(k)], pair.heap,
                           <<>>, <<>>) EXCEPT !.arena = k],
                    data.records, PairLayout(k), pair.pos[k])
       IN  /\ ENTITY_TYPES' = st.reg
           /\ pair' = IF st.err # "none"
                      THEN [pair EXCEPT !.heap = st.heap,
                                        !.maps[MapSlot(k)] = st.entities,
                                        !.pc[k] = propagate(st.err).pc,
                                        !.err[k] = propagate(st.err).error]
                      ELSE [pair EXCEPT !.heap = st.heap,
                                        !.maps[MapSlot(k)] = st.entities,
                                        !.pos[k] = loop_next(@)]
    /\ UNCHANGED single

\* Loader k leaves its for loop and returns its bodies().
pair_return(k) ==
    /\ pair.pc[k] = "loading"
    /\ pair.pos[k] > Len(data.records)
    /\ pair' = [pair EXCEPT
                  !.pc[k] = "returned",
                  !.result[k] =
                      [given |-> TRUE,
                       list |-> bodies(pair.maps[MapSlot(k)], pair.heap)]]
    /\ UNCHANGED ENTITY_TYPES
    /\ UNCHANGED single

\* Two loaders whose passes interleave in any order.
NextPair ==
    \/ pair_construct
    \/ \E k \in PairLoaders : pair_record(k)
    \/ \E k \in PairLoaders : pair_return(k)

\* The pair is given a binary and a text encoding of one stream; Body and
\* Face are registered.
InitPair ==
    /\ data \in {d \in Inputs : d.kind = "bytes"}
    /\ InitWith({RegistryPut(InitialRegistry, "Face")}, {"asc"})

SpecPair == InitPair /\ [][NextPair]_vars

\* The field lists a data parser is opened on: up to MaxFields fields, each
\* an integer or one of two entity references.
RECURSIVE FieldListsOfLen(_)
FieldListsOfLen(n) ==
    IF n = 0 THEN {<<>>}
    ELSE {Append(fs, f) : fs \in FieldListsOfLen(n - 1),
                          f \in {IntField, PtrField(1), PtrField(2)}}

CursorFieldLists == UNION {FieldListsOfLen(n) : n \in 0..MaxFields}

\* The kinds a typed read asks for.
ReadKinds == {"int", "ptr"}

\* What a data parser leaves alone.
loaders == <<ENTITY_TYPES, data, layout, pc, owner, loader, records, entities,
             heap, pos, runs, result, error, calls, trace, parsed, pair,
             steps, addon>>

\* args = sab.SabDataParser(sab_entity.data, self.version): a cursor is
\* opened over the field list of a record.
cursor_open(rid, fields) ==
    /\ ~cursor.on
    /\ cursor' = [on |-> TRUE, cur |-> Cursor(fields), record |-> rid,
                  consumed |-> <<>>, failed |-> FALSE, err |-> NoFormatError]
    /\ UNCHANGED loaders

\* The parse step reads the next field as `kind`; a failed read raises and
\* ends the parse step.
cursor_read(kind) ==
    /\ cursor.on
    /\ ~cursor.failed
    /\ LET r == ReadField(cursor.cur, kind)
       IN  cursor' = IF r.ok
                     THEN [cursor EXCEPT
                             !.cur = r.cursor,
                             !.consumed =
                                 Append(@, [kind |-> kind, val |-> r.val])]
                     ELSE [cursor EXCEPT !.cur = r.cursor, !.failed = TRUE,
                                         !.err = r.err]
    /\ UNCHANGED loaders

\* A data parser under any sequence of typed reads.
NextCursor ==
    \/ \E rid \in 0..MaxRecords - 1, fields \in CursorFieldLists :
          cursor_open(rid, fields)
    \/ \E kind \in ReadKinds : cursor_read(kind)

InitCursor ==
    /\ data = [kind |-> "bytes", records |-> <<>>]
    /\ Init

SpecCursor == InitCursor /\ [][NextCursor]_vars

\* A caller of the factory (a subtype's parse step, a client holding the
\* loader) calls get_entity with a record identity and a type name of its
\* choice.
factory_call(uid, entity_type) ==
    /\ pc = "constructed"
    /\ Len(calls) < MaxCalls
    /\ LET st == get_entity(Store(ENTITY_TYPES, entities, heap, calls, parsed),
                            uid, entity_type)
       IN  /\ st.err = "none"
           /\ ENTITY_TYPES' = st.reg
           /\ entities' = st.entities
           /\ heap' = st.heap
           /\ calls' = st.calls
    /\ UNCHANGED <<data, layout, pc, owner, loader, records, pos, runs, result,
                   error, trace, parsed>>
    /\ UNCHANGED <<steps, aux>>

\* A loader under any sequence of factory calls.
NextFactory ==
    \/ client_construct
    \/ \E uid \in 1..MaxRecords, entity_type \in TypeNames :
          factory_call(uid, entity_type)

InitFactory ==
    /\ data = [kind |-> "str", records |-> <<>>]
    /\ InitAnyRegistry

SpecFactory == InitFactory /\ [][NextFactory]_vars

\* The same program with the record objects of the stream at rising or at
\* falling addresses.
InitAnyLayout == InitWith({InitialRegistry}, Layouts)

SpecAnyLayout == InitAnyLayout /\ [][Next]_vars

\* ------------------------------------------------------------------ options
\* The variables of the loader, which the other modules leave alone.
acis == <<ENTITY_TYPES, data, layout, pc, owner, loader, records, entities,
          heap, pos, runs, result, error, calls, trace, parsed, pair, cursor,
          steps>>

\* The loader is not in use: no value is loaded while another module runs.
InitAddon ==
    /\ data = [kind |-> "str", records |-> <<>>]
    /\ Init

\* Two keys of the "core" section of the configuration.
OptionKeys == {"LOG_UNPROCESSED_TAGS", "AUTO_LOAD_FONTS"}

\* Texts a caller or a configuration file stores under a key.
OptionValues == {"true", "false", "on", "0", "maybe"}

\* What a configuration file holds for a caller of ConfigParser.read: no file
\* at the path, or for each key a text or no line at all.
NoLine == "(no line)"

ConfigFiles ==
    {[exists |-> FALSE, lines |-> [k \in OptionKeys |-> NoLine]]}
    \cup {[exists |-> TRUE, lines |-> l] :
             l \in [OptionKeys -> OptionValues \cup {NoLine}]}

\* default_config(): both keys are "true".
default_config == [k \in OptionKeys |-> "true"]

\* ConfigParser.read: a missing file is skipped, a line replaces the value of
\* its key.
config_read(config, file) ==
    [k \in OptionKeys |->
        IF file.exists /\ file.lines[k] # NoLine THEN file.lines[k]
        ELSE config[k]]

\* ConfigParser.getboolean accepts these texts and raises ValueError on any
\* other.
IsBooleanText(v) == v \in {"true", "false", "on", "0"}

get_bool(config, key) == config[key] \in {"true", "on"}

boolstr(value) == IF value THEN "true" ELSE "false"

\* update_cached_options(): ValueError leaves the attribute as it was.
update_cached_options(o) ==
    IF IsBooleanText(o._config["LOG_UNPROCESSED_TAGS"])
    THEN [o EXCEPT !.log_unprocessed_tags =
                       get_bool(o._config, "LOG_UNPROCESSED_TAGS"),
                   !.err = "none"]
    ELSE [o EXCEPT !.err = "ValueError"]

rewrite_cached_options(o) ==
    [o EXCEPT !._config["LOG_UNPROCESSED_TAGS"] =
                  boolstr(o.log_unprocessed_tags)]

\* Options(): MATPLOTLIB tells whether the import of matplotlib succeeded;
\* the object exists unless update_cached_options raised.
Options(matplotlib, file) ==
    LET o == update_cached_options(
                 [module |-> "options",
                  MATPLOTLIB |-> matplotlib,
                  _loaded_paths |-> IF file.exists THEN 1 ELSE 0,
                  _config |-> config_read(default_config, file),
                  log_unprocessed_tags |-> TRUE,
                  _use_matplotlib |-> matplotlib,
                  err |-> "none",
                  constructed |-> TRUE,
                  op |-> "Options",
                  assigned |-> <<>>,
                  stored |-> config_read(default_config, file),
                  fp |-> <<>>])
    IN  [o EXCEPT !.constructed = o.err = "none"]

\* Options.set(CORE, key, value)
Options_set(o, key, value) ==
    [o EXCEPT !._config[key] = value,
              !.stored[key] = value,
              !.err = "none",
              !.op = "set"]

\* Options.read_file(filename)
Options_read_file(o, file) ==
    LET read == [o EXCEPT !._config = config_read(@, file),
                          !.stored = config_read(@, file),
                          !._loaded_paths = @ + 1,
                          !.op = "read_file"]
    IN  update_cached_options(read)

\* Options.write(fp): the stream takes the configuration unless it raises
\* IOError.
Options_write(o, fails) ==
    LET w == rewrite_cached_options(o)
    IN  [w EXCEPT !.fp = IF fails THEN <<>> ELSE <<w._config>>,
                  !.err = "none",
                  !.op = "write"]

\* Options.reset()
Options_reset(o) ==
    update_cached_options(
        [o EXCEPT !._loaded_paths = 0,
                  !._config = default_config,
                  !.stored = default_config,
                  !.op = "reset"])

\* The getter of Options.use_matplotlib.
use_matplotlib(o) == o._use_matplotlib

\* An assignment that ignores whether Matplotlib is installed.
use_matplotlib_assign(o, state) ==
    [o EXCEPT !._use_matplotlib = state,
              !.assigned = <<state>>,
              !.err = "none",
              !.op = "use_matplotlib"]

\* The setter of Options.use_matplotlib.
use_matplotlib_setter(o, state) ==
    [o EXCEPT !._use_matplotlib = IF o.MATPLOTLIB THEN state ELSE FALSE,
              !.assigned = <<state>>,
              !.err = "none",
              !.op = "use_matplotlib"]

\* An Options object is at hand.
OptionsLive == addon.module = "options" /\ addon.constructed

options_construct(matplotlib, file) ==
    /\ addon = AddonIdle
    /\ addon' = Options(matplotlib, file)
    /\ UNCHANGED acis

options_set(key, value) ==
    /\ OptionsLive
    /\ addon' = Options_set(addon, key, value)
    /\ UNCHANGED acis

options_read_file(file) ==
    /\ OptionsLive
    /\ addon._loaded_paths < MaxPaths
    /\ addon' = Options_read_file(addon, file)
    /\ UNCHANGED acis

options_write(fails) ==
    /\ OptionsLive
    /\ addon' = Options_write(addon, fails)
    /\ UNCHANGED acis

options_reset ==
    /\ OptionsLive
    /\ addon' = Options_reset(addon)
    /\ UNCHANGED acis

options_use_matplotlib(state) ==
    /\ OptionsLive
    /\ addon' = use_matplotlib_setter(addon, state)
    /\ UNCHANGED acis

NextOptions ==
    \/ \E matplotlib \in BOOLEAN, file \in ConfigFiles :
          options_construct(matplotlib, file)
    \/ \E key \in OptionKeys, value \in OptionValues : options_set(key, value)
    \/ \E file \in ConfigFiles : options_read_file(file)
    \/ \E fails \in BOOLEAN : options_write(fails)
    \/ options_reset
    \/ \E state \in BOOLEAN : options_use_matplotlib(state)

SpecOptions == InitAddon /\ [][NextOptions]_vars

\* -------------------------------------------------------------------- fonts
\* cache_key() of the fonts a cache file may list.
FontKeys == {"arial.ttf", "txt.ttf"}

\* The path argument of load and save: None (the default location) or a
\* directory of the caller.
CachePaths == {"None", "fontdir"}

\* A cache file: missing, or the keys of the entries it lists.
NoFile == [exists |-> FALSE, keys |-> {}]

CacheFiles == {NoFile} \cup {[exists |-> TRUE, keys |-> s] : s \in SUBSET FontKeys}

\* The cache files of one directory.
CacheDirectories == [font_face_cache : CacheFiles, font_measurement_cache : CacheFiles]

\* The module after its import: font_face_cache = dict(),
\* font_measurement_cache = dict(), font_manager = FontManager().
Fonts(files) ==
    [module |-> "fonts",
     font_face_cache |-> {},
     font_measurement_cache |-> {},
     font_manager |-> "FontManager()",
     files |-> files,
     read |-> {},
     op |-> "import",
     reload |-> FALSE,
     err |-> "none"]

\* _load_font_faces(p), _load_measurement_cache(p): one key per entry.
load_cache_file(f, path, name) ==
    [f EXCEPT !.read = @ \cup {<<path, name>>}]

\* _load_font_manager(): options.xdg_path is no attribute of Options, the
\* call raises AttributeError before the font manager is touched.
load_font_manager(f) == [f EXCEPT !.err = "AttributeError"]

\* load() without the test that skips a repeated call.
Fonts_load_always(f, path, reload) ==
    LET dir == f.files[path]
        s0 == [f EXCEPT !.read = {}, !.err = "none", !.op = "load",
                        !.reload = reload]
        s1 == IF dir.font_face_cache.exists
              THEN [load_cache_file(s0, path, "font_face_cache")
                       EXCEPT !.font_face_cache = dir.font_face_cache.keys]
              ELSE s0
        s2 == IF dir.font_measurement_cache.exists
              THEN [load_cache_file(s1, path, "font_measurement_cache")
                       EXCEPT !.font_measurement_cache =
                                  dir.font_measurement_cache.keys]
              ELSE s1
    IN  load_font_manager(s2)

\* load(path, reload)
Fonts_load(f, path, reload) ==
    LET dir == f.files[path]
        s0 == [f EXCEPT !.read = {}, !.err = "none", !.op = "load",
                        !.reload = reload]
        s1 == IF dir.font_face_cache.exists
              THEN [load_cache_file(s0, path, "font_face_cache")
                       EXCEPT !.font_face_cache = dir.font_face_cache.keys]
              ELSE s0
        s2 == IF dir.font_measurement_cache.exists
              THEN [load_cache_file(s1, path, "font_measurement_cache")
                       EXCEPT !.font_measurement_cache =
                                  dir.font_measurement_cache.keys]
              ELSE s1
    IN  IF Cardinality(f.font_face_cache) # 0 /\ reload = FALSE
        THEN s0
        ELSE load_font_manager(s2)

\* save(path): both caches are written to the directory.
Fonts_save(f, path) ==
    [f EXCEPT !.files[path] =
                  [font_face_cache |->
                       [exists |-> TRUE, keys |-> f.font_face_cache],
                   font_measurement_cache |->
                       [exists |-> TRUE, keys |-> f.font_measurement_cache]],
              !.read = {},
              !.err = "none",
              !.op = "save"]

FontsLive == addon.module = "fonts"

fonts_import(files) ==
    /\ addon = AddonIdle
    /\ addon' = Fonts(files)
    /\ UNCHANGED acis

fonts_call_load(path, reload) ==
    /\ FontsLive
    /\ addon' = Fonts_load(addon, path, reload)
    /\ UNCHANGED acis

fonts_call_save(path) ==
    /\ FontsLive
    /\ addon' = Fonts_save(addon, path)
    /\ UNCHANGED acis

NextFonts ==
    \/ /\ addon = AddonIdle
       /\ \E files \in [CachePaths -> CacheDirectories] : fonts_import(files)
    \/ \E path \in CachePaths, reload \in BOOLEAN :
          fonts_call_load(path, reload)
    \/ \E path \in CachePaths : fonts_call_save(path)

SpecFonts == InitAddon /\ [][NextFonts]_vars

\* ------------------------------------------------------------------- meshex
\* Lines of an OFF text, each as the tokens str.split() makes of it: a blank
\* line, a comment, "OFF" alone, headers with and without the OFF prefix,
\* short and non-numeric lines, a vertex line and face lines.
OffLines ==
    {<<>>, <<"#">>, <<"OFF">>, <<"OFF", "1", "1", "0">>, <<"1", "1">>,
     <<"1">>, <<"x", "1">>, <<"0", "0", "0">>, <<"1", "0">>, <<"2", "0">>}

\* The texts of n lines.
OffContentsOfLen(n) == [1..n -> OffLines]

\* int(token) and float(token) succeed on these tokens and raise ValueError
\* on the others.
IsNumber(t) == t \in {"0", "1", "2"}

IntOf(t) == CASE t = "0" -> 0 [] t = "1" -> 1 [] t = "2" -> 2

MinOf(a, b) == IF a < b THEN a ELSE b

\* The lines off_loads keeps: not a comment, not "OFF" alone, not empty.
RECURSIVE OffDataLines(_)
OffDataLines(content) ==
    IF content = <<>> THEN <<>>
    ELSE LET line == Head(content)
             rest == OffDataLines(Tail(content))
         IN  IF line = <<>> \/ line[1] = "#" \/ line = <<"OFF">>
             THEN rest
             ELSE <<line>> \o rest

\* What a call of off_loads ends with.
OffRaised(type, lines) ==
    [err |-> type, declared |-> FALSE, n_vertices |-> 0, n_faces |-> 0,
     vertices |-> <<>>, faces |-> <<>>, lines |-> lines]

\* Vec3(float(v[0]), float(v[1]), float(v[2])) raises on this line.
BadVertex(v) ==
    \/ Len(v) < 3
    \/ \E k \in 1..3 : ~IsNumber(v[k])

\* The face line raises: the count is no number, or one of the indices the
\* count announces is missing or no number.
BadFace(f) ==
    \/ ~IsNumber(f[1])
    \/ \E k \in 1..IntOf(f[1]) : Len(f) < 1 + k \/ ~IsNumber(f[1 + k])

\* off_loads(content)
off_loads(content) ==
    LET kept == OffDataLines(content)
        lines == IF kept # <<>> /\ kept[1][1] = "OFF"
                 THEN <<Tail(kept[1])>> \o Tail(kept)
                 ELSE kept
        n == lines[1]
        n_vertices == IntOf(n[1])
        n_faces == IntOf(n[2])
        \* lines[1 : n_vertices + 1]
        vlast == MinOf(n_vertices + 1, Len(lines))
        \* lines[n_vertices + 1 : n_vertices + 1 + n_faces]
        ffirst == n_vertices + 2
        flast == MinOf(n_vertices + 1 + n_faces, Len(lines))
        vertices == [i \in 1..(vlast - 1) |->
                        <<IntOf(lines[i + 1][1]), IntOf(lines[i + 1][2]),
                          IntOf(lines[i + 1][3])>>]
        faces == [i \in 1..(flast - ffirst + 1) |->
                     LET f == lines[ffirst + i - 1]
                     IN  [k \in 1..IntOf(f[1]) |-> IntOf(f[1 + k])]]
    IN  IF kept = <<>> THEN OffRaised("ParsingError", kept)
        ELSE IF n = <<>> THEN OffRaised("IndexError", lines)
        ELSE IF ~IsNumber(n[1]) THEN OffRaised("ParsingError", lines)
        ELSE IF Len(n) < 2 THEN OffRaised("IndexError", lines)
        ELSE IF ~IsNumber(n[2]) THEN OffRaised("ParsingError", lines)
        ELSE IF Len(lines) < n_vertices + n_faces
             THEN OffRaised("ParsingError", lines)
        ELSE IF \E i \in 2..vlast : BadVertex(lines[i])
             THEN OffRaised("ParsingError", lines)
        ELSE IF \E i \in ffirst..flast : BadFace(lines[i])
             THEN OffRaised("ParsingError", lines)
        ELSE [err |-> "none", declared |-> TRUE, n_vertices |-> n_vertices,
              n_faces |-> n_faces, vertices |-> vertices, faces |-> faces,
              lines |-> lines]

\* off_readfile(filename): the text of the file goes to off_loads.
off_readfile(content) == off_loads(content)

\* Corners of the faces of a mesh.
Points == {<<0, 0, 0>>, <<1, 0, 0>>, <<0, 1, 0>>}

\* What mesh.tessellation(max_vertex_count=3) yields: faces of up to three
\* corners.
Triangles == [1..2 -> Points] \cup [1..3 -> Points]

\* The tessellations of n faces.
TessellationsOfLen(n) == [1..n -> Triangles]

\* (b - a) x (c - a)
Cross(a, b, c) ==
    LET u == <<b[1] - a[1], b[2] - a[2], b[3] - a[3]>>
        v == <<c[1] - a[1], c[2] - a[2], c[3] - a[3]>>
    IN  <<u[2] * v[3] - u[3] * v[2],
          u[3] * v[1] - u[1] * v[3],
          u[1] * v[2] - u[2] * v[1]>>

\* normal_vector_3p raises ZeroDivisionError: the corners span no plane.
Degenerate(face) == Cross(face[1], face[2], face[3]) = <<0, 0, 0>>

STL_SIGNATURE == [size |-> 80, value |-> <<"STL generated ezdxf">>]

\* struct.pack("<I", count)
PackCount(count) == [size |-> 4, value |-> <<count>>]

\* struct.pack("<12fH", *values): the normal, three corners, and 0.
PackFace(face) ==
    [size |-> 50,
     value |-> <<Cross(face[1], face[2], face[3]), face[1], face[2],
                 face[3], 0>>]

\* The loop of stl_dumpb over the faces: the records appended, the count,
\* and the exception that ended it.
RECURSIVE DumpFaces(_, _)
DumpFaces(faces, acc) ==
    IF faces = <<>> THEN acc
    ELSE LET face == Head(faces)
         IN  IF Len(face) < 3 THEN [acc EXCEPT !.err = "IndexError"]
             ELSE IF Degenerate(face) THEN DumpFaces(Tail(faces), acc)
             ELSE DumpFaces(Tail(faces),
                            [acc EXCEPT !.count = @ + 1,
                                        !.data = Append(@, PackFace(face))])

\* stl_dumpb with a count of all the faces of the tessellation.
stl_dumpb_counting_all(faces) ==
    LET r == DumpFaces(faces, [count |-> 0, data |-> <<>>, err |-> "none"])
    IN  IF r.err # "none" THEN [err |-> r.err, bytes |-> <<>>]
        ELSE [err |-> "none",
              bytes |-> <<STL_SIGNATURE, PackCount(Len(faces))>> \o r.data]

\* stl_dumpb(mesh), given the faces mesh.tessellation yields.
stl_dumpb(faces) ==
    LET r == DumpFaces(faces, [count |-> 0, data |-> <<>>, err |-> "none"])
    IN  IF r.err # "none" THEN [err |-> r.err, bytes |-> <<>>]
        ELSE [err |-> "none",
              bytes |-> <<STL_SIGNATURE, PackCount(r.count)>> \o r.data]

\* len(buffer)
RECURSIVE BufferLen(_)
BufferLen(buffer) ==
    IF buffer = <<>> THEN 0 ELSE Head(buffer).size + BufferLen(Tail(buffer))

\* The offset of the k-th packed value of a buffer.
OffsetOf(buffer, k) == BufferLen(SubSeq(buffer, 1, k - 1))

\* struct.unpack_from(fmt, buffer, index) succeeds: size bytes start there.
CanUnpack(buffer, index, size) ==
    \E k \in 1..Len(buffer) :
        OffsetOf(buffer, k) = index /\ buffer[k].size = size

Unpack(buffer, index) ==
    buffer[CHOOSE k \in 1..Len(buffer) : OffsetOf(buffer, k) = index].value

\* stl_loadb(buffer): the faces read back.
stl_loadb(buffer) ==
    IF ~CanUnpack(buffer, 80, 4) THEN [err |-> "struct.error", faces |-> <<>>]
    ELSE LET n_faces == Unpack(buffer, 80)[1]
         IN  IF \E i \in 0..(n_faces - 1) :
                    ~CanUnpack(buffer, 84 + 50 * i, 50)
             THEN [err |-> "ParsingError", faces |-> <<>>]
             ELSE [err |-> "none",
                   faces |-> [i \in 1..n_faces |->
                       LET face == Unpack(buffer, 84 + 50 * (i - 1))
                       IN  <<face[2], face[3], face[4]>>]]

MeshexCall(op, input, ret) ==
    [module |-> "meshex", op |-> op, input |-> input, ret |-> ret]

meshex_off_loads(content) ==
    /\ addon = AddonIdle
    /\ addon' = MeshexCall("off_loads", content, off_loads(content))
    /\ UNCHANGED acis

meshex_off_readfile(content) ==
    /\ addon = AddonIdle
    /\ addon' = MeshexCall("off_readfile", content, off_readfile(content))
    /\ UNCHANGED acis

meshex_stl_dumpb(faces) ==
    /\ addon = AddonIdle
    /\ addon' = MeshexCall("stl_dumpb", faces, stl_dumpb(faces))
    /\ UNCHANGED acis

\* The bytes stl_dumpb returned are read back.
meshex_stl_loadb ==
    /\ addon.module = "meshex"
    /\ addon.op = "stl_dumpb"
    /\ addon.ret.err = "none"
    /\ addon' = MeshexCall("stl_loadb", addon.ret.bytes,
                           stl_loadb(addon.ret.bytes))
    /\ UNCHANGED acis

\* One call from the idle module, or the read of what stl_dumpb wrote.
NextMeshex ==
    \/ /\ addon = AddonIdle
       /\ \E n \in 0..MaxLines : \E content \in OffContentsOfLen(n) :
             meshex_off_loads(content)
    \/ /\ addon = AddonIdle
       /\ \E n \in 0..MaxLines : \E content \in OffContentsOfLen(n) :
             meshex_off_readfile(content)
    \/ /\ addon = AddonIdle
       /\ \E n \in 0..MaxFaces : \E faces \in TessellationsOfLen(n) :
             meshex_stl_dumpb(faces)
    \/ meshex_stl_loadb

SpecMeshex == InitAddon /\ [][NextMeshex]_vars

\* ------------------------------------------------------------------ claims
\* id(record) of record i of the loader's stream.
Uid(i) == id_(layout, Len(records), i)

\* The record a memo key belongs to.
RecordOf(uid) == CHOOSE i \in 1..Len(records) : Uid(i) = uid

\* The node memoized for record i.
NodeOf(i) == Lookup(entities, Uid(i))

\* load_entities has returned.
Done == pc \in {"loaded", "returned"}

\* Record i is decoded by Face.parse and its fields hold the entity reference
\* Face.parse reads.
RefersTo(i, j) ==
    /\ records[i].name = "face"
    /\ "face" \in DOMAIN ENTITY_TYPES
    /\ records[i].data = <<PtrField(j)>>

\* The same of record i of a stream that no loader was constructed on yet.
RefersToIn(recs, i, j) ==
    /\ recs[i].name = "face"
    /\ "face" \in DOMAIN ENTITY_TYPES
    /\ recs[i].data = <<PtrField(j)>>

\* Record i is decoded by Face.parse and its fields are truncated or of the
\* wrong kind.
Malformed(i) ==
    /\ records[i].name = "face"
    /\ "face" \in DOMAIN ENTITY_TYPES
    /\ records[i].data \in {<<>>, <<IntField>>}

\* Number of times node n occurs in list.
Occurrences(list, n) == Cardinality({k \in 1..Len(list) : list[k] = n})

\* C1: within one loader, all get_entity calls with the same record identity
\* return the same node: the first call creates and caches it, and no later
\* call replaces it in the map or creates a second node for that identity.
C1_SameIdentitySameNode ==
    /\ \A a, b \in 1..Len(calls) :
          calls[a].uid = calls[b].uid => calls[a].ret = calls[b].ret
    /\ \A a \in 1..Len(calls) :
          /\ HasKey(entities, calls[a].uid)
          /\ Lookup(entities, calls[a].uid) = calls[a].ret
    /\ \A a, b \in 1..Len(entities) :
          entities[a].uid = entities[b].uid => a = b
    /\ Len(heap) = Len(entities)

\* C1 witness: one record identity was asked for from a parse step (a forward
\* reference), from the record loop and from the attribute resolution.
C1_Witness ==
    /\ pc = "loaded"
    /\ runs = 1
    /\ Len(records) = 2
    /\ RefersTo(1, 2)
    /\ records[2].attributes # NullPtr
    /\ Occurrences([a \in 1..Len(calls) |-> calls[a].uid], Uid(2)) = 3

\* C2: a node first obtained through a reference made while an earlier record
\* is processed is the node the loader populates when the referenced record
\* itself is visited; after load_entities the reference points to the
\* memoized, populated node of the referenced record.
C2_ForwardReferenceResolved ==
    Done =>
        \A i, j \in 1..Len(records) :
            (i < j /\ RefersTo(i, j)) =>
                /\ HasKey(entities, Uid(j))
                /\ heap[NodeOf(i)].ref = NodeOf(j)
                /\ heap[NodeOf(j)].has_id
                /\ heap[NodeOf(j)].id = records[j].id
                /\ ClassType(heap[NodeOf(j)].cls) =
                     ClassType(RegistryGet(ENTITY_TYPES, records[j].name,
                                           "AcisEntity"))
                /\ Occurrences([k \in 1..Len(entities) |-> entities[k].uid],
                               Uid(j)) = 1

\* C2 witness: record 1 referred to record 2 before record 2 was visited, and
\* the load has finished.
C2_Witness ==
    /\ pc = "loaded"
    /\ runs = 1
    /\ Len(records) = 2
    /\ RefersTo(1, 2)
    /\ records[2].name = "body"
    /\ entities[1].uid = Uid(1)
    /\ heap[NodeOf(1)].ref = NodeOf(2)
    /\ heap[NodeOf(2)].id = 1

\* C3: after load_entities, the attributes link of every record with a
\* non-null attribute_ref is the node memoized for the record that
\* attribute_ref points to.
C3_AttributesAreReferencedRecord ==
    Done =>
        \A i \in 1..Len(records) :
            records[i].attributes # NullPtr =>
                /\ HasKey(entities, Uid(records[i].attributes))
                /\ heap[NodeOf(i)].attributes = NodeOf(records[i].attributes)

\* C4: a type name never makes node creation fail: the only exceptions of a
\* load are the TypeError of the dispatch and the FormatError of a malformed
\* field list; the pass over the next record of a load in progress raises
\* nothing unless that record's fields are malformed, so the loop reaches its
\* end; a record of an unregistered type gets a generic node; and the
\* returned list holds the node of every record whose type is registered to
\* Body.
C4_UnknownTypeTolerated ==
    /\ (pc = "loading" /\ pos <= Len(records)) =>
          Loader_load_entities_body(
              loader, Store(ENTITY_TYPES, entities, heap, calls, parsed),
              records, layout, pos).err
             = IF Malformed(pos) THEN "FormatError" ELSE "none"
    /\ pc = "loading" => pos \in 1..Len(records) + 1
    /\ pc = "raised" =>
          \/ error = "TypeError" /\ data.kind = "other"
          \/ error = "FormatError" /\ pos \in 1..Len(records) /\ Malformed(pos)
    /\ pc # "raised" => error = "none"
    /\ \A k \in 1..Len(entities) :
          records[RecordOf(entities[k].uid)].name \notin DOMAIN ENTITY_TYPES
             => heap[entities[k].node].cls = "AcisEntity"
    /\ pc = "returned" =>
          \A i \in 1..Len(records) :
             (/\ records[i].name \in DOMAIN ENTITY_TYPES
              /\ IsBodyClass(ENTITY_TYPES[records[i].name]))
                => Occurrences(result.list, NodeOf(i)) = 1

\* C4 witness: a load of an unknown-typed record followed by a body record
\* returned that body.
C4_Witness ==
    /\ pc = "returned"
    /\ Len(records) = 2
    /\ records[1].name = "unknown-xyz"
    /\ records[2].name = "body"
    /\ "body" \in DOMAIN ENTITY_TYPES
    /\ heap[NodeOf(1)].cls = "AcisEntity"
    /\ result.list = <<NodeOf(2)>>

\* C5: the generic node created for a record of an unregistered type name
\* carries that record's type name as its type tag.
C5_GenericNodeKeepsTypeName ==
    \A k \in 1..Len(entities) :
        records[RecordOf(entities[k].uid)].name \notin DOMAIN ENTITY_TYPES
           => ClassType(heap[entities[k].node].cls)
                = records[RecordOf(entities[k].uid)].name

\* C6: the node of a record whose attribute_ref is the null-pointer sentinel
\* has no attributes link, at any time of the load and after it.
C6_NullAttributeStaysAbsent ==
    \A i \in 1..Len(records) :
        (records[i].attributes = NullPtr /\ HasKey(entities, Uid(i)))
            => heap[NodeOf(i)].attributes = None

\* C6 witness: after a load, one record with a null attribute_ref and one
\* with a link attached.
C6_Witness ==
    /\ Done
    /\ \E i, j \in 1..Len(records) :
          /\ records[i].attributes = NullPtr
          /\ heap[NodeOf(i)].has_id
          /\ heap[NodeOf(i)].attributes = None
          /\ records[j].attributes # NullPtr
          /\ heap[NodeOf(j)].attributes # None

\* C7: bodies() returns exactly the nodes of the map whose runtime type is
\* Body: each of them once, and no other node.
C7_BodiesAreTheBodyNodesOfTheMap ==
    pc = "returned" =>
        /\ \A n \in 1..Len(heap) :
              Occurrences(result.list, n) =
                 IF /\ \E k \in 1..Len(entities) : entities[k].node = n
                    /\ IsBodyClass(heap[n].cls)
                 THEN 1 ELSE 0
        /\ \A k \in 1..Len(result.list) : result.list[k] \in 1..Len(heap)

\* C7 witness: bodies() returned a list that leaves a node of the map out.
C7_Witness ==
    /\ pc = "returned"
    /\ Len(result.list) = 1
    /\ Len(entities) = 2
    /\ \E k \in 1..2 : ~IsBodyClass(heap[entities[k].node].cls)

\* C8: when decoding a record's fields fails, the call ends with that error:
\* bodies() is not evaluated and no list reaches the caller, however many
\* records were processed before.
C8_FormatErrorGivesNoResult ==
    error = "FormatError" =>
        /\ pc = "raised"
        /\ ~result.given
        /\ \A k \in 1..Len(trace) : trace[k] # "bodies"

\* C8 witness: the second record failed to decode after a body record was
\* processed.
C8_Witness ==
    /\ pc = "raised"
    /\ error = "FormatError"
    /\ owner = "load"
    /\ pos = 2
    /\ Len(entities) = 2
    /\ IsBodyClass(heap[entities[1].node].cls)

\* C9: load dispatches on the type of its argument alone: bytes and bytearray
\* go to the SAB loader only, str to the SAT loader only, and any other value
\* raises TypeError before anything is tokenized, constructed or parsed.
C9_DispatchOnInputType ==
    owner = "load" =>
        /\ data.kind \in {"bytes", "bytearray"} =>
              /\ loader = "SabLoader"
              /\ \A k \in 1..Len(trace) :
                    trace[k] \notin {"tokenize:SatLoader", "construct:SatLoader"}
        /\ data.kind = "str" =>
              /\ loader = "SatLoader"
              /\ \A k \in 1..Len(trace) :
                    trace[k] \notin {"tokenize:SabLoader", "construct:SabLoader"}
        /\ data.kind = "other" =>
              /\ pc = "raised"
              /\ error = "TypeError"
              /\ loader = "none"
              /\ trace = <<>>
              /\ records = <<>>
              /\ entities = <<>>
              /\ heap = <<>>
              /\ calls = <<>>
              /\ ~result.given

\* C9 witness: load was called with a value that is neither bytes nor text.
C9_Witness ==
    /\ owner = "load"
    /\ data.kind = "other"
    /\ pc = "raised"
    /\ error = "TypeError"

\* C10 as stated: load_entities is never entered on a loader that is LOADING
\* or DONE, so no instance processes its record stream a second time.
C10_NeverReentered ==
    [][~(pc \in {"loading", "loaded", "returned"} /\ runs' = runs + 1)]_vars

\* C10 amended: a loader built by the load entry points goes through
\* UNSTARTED (constructed), LOADING and DONE once: load_entities is entered
\* once, from UNSTARTED, and the instance is not entered again.
C10_LoadEntryRunsOnce ==
    [][owner' = "load" =>
        /\ pc' # pc =>
              <<pc, pc'>> \in {<<"idle", "constructed">>, <<"idle", "raised">>,
                               <<"constructed", "loading">>,
                               <<"loading", "loaded">>, <<"loading", "raised">>,
                               <<"loaded", "returned">>}
        /\ runs' # runs => (pc = "constructed" /\ runs = 0 /\ runs' = 1)
        /\ runs' <= 1]_vars

\* C10 witness: a load through the entry point has returned after one pass
\* over a stream of two records.
C10_Witness ==
    /\ owner = "load"
    /\ pc = "returned"
    /\ runs = 1
    /\ Len(records) = 2
    /\ Len(entities) = 2

\* --------------------------------------------------------------- C11 .. C20
\* C11: a node that carries a numeric id carries the id of its own record,
\* the record its memo key identifies; while the loop runs, the nodes with an
\* id are those of the records already visited, so a node created for a
\* reference has no id until its own record is visited; once load_entities
\* has returned, every record's node carries that record's id.
C11_IdFromOwnRecord ==
    /\ \A k \in 1..Len(entities) :
          LET uid == entities[k].uid
              node == heap[entities[k].node]
          IN  /\ \E i \in 1..Len(records) : Uid(i) = uid
              /\ node.has_id => node.id = records[RecordOf(uid)].id
              /\ pc = "loading" => (node.has_id <=> RecordOf(uid) < pos)
    /\ Done =>
          \A i \in 1..Len(records) :
              /\ HasKey(entities, Uid(i))
              /\ heap[NodeOf(i)].has_id
              /\ heap[NodeOf(i)].id = records[i].id

\* C11 witness: the first record refers to the second, so the second record's
\* node is created by the reference, and after the load it carries the id of
\* the second record.
C11_Witness ==
    /\ Done
    /\ Len(records) = 2
    /\ RefersTo(1, 2)
    /\ heap[NodeOf(1)].ref = NodeOf(2)
    /\ heap[NodeOf(2)].id = records[2].id
    /\ heap[NodeOf(2)].id # heap[NodeOf(1)].id

\* C12: while the loop of load_entities runs, the parse steps invoked so far
\* are those of the nodes of the records before the loop position, one per
\* record and in stream order; when the call has returned, they are those of
\* all records of the stream, one per record and in stream order.
C12_EveryRecordParsedOnceInOrder ==
    /\ pc = "loading" =>
          /\ pos \in 1..Len(records) + 1
          /\ Len(parsed) = pos - 1
          /\ \A k \in 1..pos - 1 : parsed[k] = NodeOf(k)
    /\ Done =>
          /\ Len(parsed) = Len(records)
          /\ \A k \in 1..Len(records) :
                /\ parsed[k] = NodeOf(k)
                /\ Occurrences(parsed, NodeOf(k)) = 1

\* C12 witness: a load of two records has returned; the node of the second
\* record existed before its record was visited, and its parse step ran
\* second.
C12_Witness ==
    /\ Done
    /\ Len(records) = 2
    /\ RefersTo(1, 2)
    /\ parsed = <<NodeOf(1), NodeOf(2)>>

\* What a load reads and writes besides the registry.
LoadState == <<pc, owner, loader, records, entities, heap, pos, runs, result,
               error, calls, trace, parsed>>

\* C14: every step of a load (construction, entering load_entities, a pass
\* of its loop with its get_entity calls, its return, bodies) leaves
\* ENTITY_TYPES as it was; a type name that is not registered is not added.
C14_LoadLeavesRegistryAlone ==
    [][LoadState' # LoadState => ENTITY_TYPES' = ENTITY_TYPES]_vars

\* C14 witness: a load has returned that made a node for a record of a type
\* name that is not registered, and the name is still not registered.
C14_Witness ==
    /\ pc = "returned"
    /\ \E i \in 1..Len(records) :
          /\ records[i].name = "unknown-xyz"
          /\ HasKey(entities, Uid(i))
          /\ heap[NodeOf(i)].cls = "AcisEntity"
    /\ "unknown-xyz" \notin DOMAIN ENTITY_TYPES

\* C18: in the list load returns, every element is a node of a class whose
\* type name is "body" and is the node of a record whose type name is
\* "body"; every record whose type name is "body" has its node in the list
\* exactly once, and the list holds nothing else.
C18_ReturnedListIsTheBodyRecords ==
    result.given =>
        /\ \A k \in 1..Len(result.list) :
              /\ ClassType(heap[result.list[k]].cls) = "body"
              /\ \E i \in 1..Len(records) :
                    /\ records[i].name = "body"
                    /\ NodeOf(i) = result.list[k]
        /\ \A i \in 1..Len(records) :
              records[i].name = "body" =>
                  Occurrences(result.list, NodeOf(i)) = 1
        /\ Len(result.list) =
              Cardinality({i \in 1..Len(records) : records[i].name = "body"})

\* C18 witness: a load of a record of type "body" and a record of another
\* type has returned a list of one element.
C18_Witness ==
    /\ result.given
    /\ Len(records) = 2
    /\ records[2].name = "body"
    /\ records[1].name # "body"
    /\ result.list = <<NodeOf(2)>>

\* C19: an exception in flight has ended the call: it is the exception that
\* was raised (TypeError by the dispatch of load on an input that is neither
\* bytes nor text, FormatError by the parse step of the record the loop
\* stands at), nothing is returned, load_entities was entered at most once,
\* and the calls made are those of the one loader the dispatch selected, the
\* other loader's tokenizer and constructor not among them.
C19_ErrorReachesCallerAndEndsLoad ==
    error # "none" =>
        /\ pc = "raised"
        /\ result = NoResult
        /\ runs <= 1
        /\ error \in {"TypeError", "FormatError"}
        /\ error = "TypeError" =>
              /\ load_dispatch(data.kind) = "TypeError"
              /\ trace = <<>>
        /\ error = "FormatError" =>
              /\ loader = load_dispatch(data.kind)
              /\ trace = <<"tokenize:" \o loader, "construct:" \o loader,
                           "load_entities">>
              /\ pos \in 1..Len(records)
              /\ Malformed(pos)

\* C19 witness: the text loader has raised FormatError at the second record
\* of its stream.
C19_Witness ==
    /\ error = "FormatError"
    /\ pc = "raised"
    /\ loader = "SatLoader"
    /\ pos = 2
    /\ Len(entities) = 2

\* C17: the numeric ids of the bodies a load returned are, in sequence, the
\* ids of the bodies a load of the same records with the same registry
\* returns under every layout of the record identities.
C17_BodyOrderIndependentOfIdentities ==
    result.given =>
        \A lay \in Layouts :
            LET other == Loader_load(loader, ENTITY_TYPES, records, lay)
            IN  /\ other.err = "none"
                /\ NodeIds(other.list, other.st.heap)
                     = NodeIds(result.list, heap)

\* C17 witness: a load of two body records whose identities fall along the
\* stream has returned the two bodies in stream order.
C17_Witness ==
    /\ result.given
    /\ layout = "desc"
    /\ Len(records) = 2
    /\ Uid(1) > Uid(2)
    /\ NodeIds(result.list, heap) = <<records[1].id, records[2].id>>

\* C15: in every registry the registrations can build, register(cls) can be
\* called for every class; the registry it leaves holds cls under the type
\* name of cls, whatever was there before, holds the other entries as they
\* were and has no further name; a second registration of cls changes
\* nothing more, and a registration of another class of the same type name
\* after it replaces cls.
C15_RegisterIsIdempotentOverwrite ==
    \A cls \in RegisterArguments :
        LET after == RegistryPut(ENTITY_TYPES, cls)
        IN  /\ ENABLED register(cls)
            /\ DOMAIN after = DOMAIN ENTITY_TYPES \cup {ClassType(cls)}
            /\ after[ClassType(cls)] = cls
            /\ \A t \in DOMAIN ENTITY_TYPES \ {ClassType(cls)} :
                  after[t] = ENTITY_TYPES[t]
            /\ RegistryPut(after, cls) = after
            /\ \A other \in RegisterArguments :
                  ClassType(other) = ClassType(cls) =>
                      RegistryPut(after, other)[ClassType(cls)] = other

\* C15 witness: a registry where a name that was registered before holds the
\* class of a later registration of another class of that name, beside the
\* entries of two other names.
C15_Witness ==
    /\ DOMAIN ENTITY_TYPES = {"body", "face", "unsupported-entity"}
    /\ ENTITY_TYPES["unsupported-entity"] = "UntypedEntity"
    /\ RegistryPut(ENTITY_TYPES, "AcisEntity") # ENTITY_TYPES
    /\ RegistryPut(ENTITY_TYPES, "Face") = ENTITY_TYPES

\* The record whose node in the map is the given node: 0 for no node, -1 for
\* a node the map does not hold.
IndexOf(ents, recs, lay, node) ==
    IF node = None THEN 0
    ELSE LET S == {i \in 1..Len(recs) :
                     /\ HasKey(ents, id_(lay, Len(recs), i))
                     /\ Lookup(ents, id_(lay, Len(recs), i)) = node}
         IN  IF S = {} THEN -1 ELSE CHOOSE i \in S : TRUE

\* The graph a loader has built, by record: the node of each record with its
\* class, its id and the records its attributes and reference edges lead to.
GraphOf(ents, hp, recs, lay) ==
    [i \in 1..Len(recs) |->
        IF HasKey(ents, id_(lay, Len(recs), i))
        THEN LET node == hp[Lookup(ents, id_(lay, Len(recs), i))]
             IN  [present |-> TRUE, cls |-> node.cls,
                  has_id |-> node.has_id, id |-> node.id,
                  attributes |-> IndexOf(ents, recs, lay, node.attributes),
                  ref |-> IndexOf(ents, recs, lay, node.ref)]
        ELSE [present |-> FALSE, cls |-> "", has_id |-> FALSE, id |-> 0,
              attributes |-> 0, ref |-> 0]]

\* The records of a list of nodes, in the order of the list.
RecordsOf(list, ents, recs, lay) ==
    [k \in 1..Len(list) |-> IndexOf(ents, recs, lay, list[k])]

\* The nodes a map holds.
NodesOf(ents) == {ents[k].node : k \in 1..Len(ents)}

\* C13: of two loaders at work on their streams with their passes
\* interleaved, each has its own map: no record identity and no node is in
\* both maps; a loader that has returned or raised has built the graph,
\* returned the bodies and raised the exception of a load of its stream run
\* alone.
C13_InterleavedLoadersDoNotInterfere ==
    /\ NodesOf(pair.maps[1]) \cap NodesOf(pair.maps[2]) = {}
    /\ \A k \in PairLoaders :
          /\ NodesOf(pair.maps[k]) \subseteq
                {a \in 1..Len(pair.heap) : pair.heap[a] # FreeSlot}
          /\ \A j \in 1..Len(pair.maps[k]) :
                \E i \in 1..Len(data.records) :
                    pair.maps[k][j].uid
                       = id_(PairLayout(k), Len(data.records), i)
    /\ \A k \in PairLoaders :
          pair.pc[k] \in {"returned", "raised"} =>
              LET alone == Loader_load(LoaderClass(k), ENTITY_TYPES,
                                       data.records, PairLayout(k))
              IN  /\ pair.err[k] = alone.err
                  /\ pair.result[k].given = (alone.err = "none")
                  /\ Len(pair.maps[k]) = Len(alone.st.entities)
                  /\ GraphOf(pair.maps[k], pair.heap, data.records,
                             PairLayout(k))
                       = GraphOf(alone.st.entities, alone.st.heap,
                                 data.records, PairLayout(k))
                  /\ RecordsOf(pair.result[k].list, pair.maps[k],
                               data.records, PairLayout(k))
                       = RecordsOf(alone.list, alone.st.entities,
                                   data.records, PairLayout(k))
                  /\ NodeIds(pair.result[k].list, pair.heap)
                       = NodeIds(alone.list, alone.st.heap)

\* C13 witness: the binary loader has returned a body while the text loader
\* stands between its two records, one node in its map.
C13_Witness ==
    /\ pair.pc = <<"returned", "loading">>
    /\ pair.pos[2] = 2
    /\ Len(data.records) = 2
    /\ Len(pair.result[1].list) >= 1
    /\ Len(pair.maps[1]) = 2
    /\ Len(pair.maps[2]) = 1
    /\ NodesOf(pair.maps[1]) \cup NodesOf(pair.maps[2])
          = {a \in 1..Len(pair.heap) : pair.heap[a] # FreeSlot}

\* C16: whenever the binary loader and the text loader have got equally far
\* with the same records (both at the same record, both returned, or both
\* raised at the same record), they have built related graphs: as many
\* nodes, entered in the same order, record by record the same class and id
\* and the same attributes and reference edges, the same exception if any,
\* and the same bodies with the same ids in the same order.
C16_BinaryAndTextLoadersAgree ==
    (pair.pc[1] = pair.pc[2] /\ pair.pos[1] = pair.pos[2]) =>
        /\ pair.err[1] = pair.err[2]
        /\ Len(pair.maps[1]) = Len(pair.maps[2])
        /\ \A j \in 1..Len(pair.maps[1]) :
              pair.maps[1][j].uid - id_(PairLayout(1), Len(data.records), 1)
                 = pair.maps[2][j].uid
                      - id_(PairLayout(2), Len(data.records), 1)
        /\ GraphOf(pair.maps[1], pair.heap, data.records, PairLayout(1))
             = GraphOf(pair.maps[2], pair.heap, data.records, PairLayout(2))
        /\ pair.result[1].given = pair.result[2].given
        /\ RecordsOf(pair.result[1].list, pair.maps[1], data.records,
                     PairLayout(1))
             = RecordsOf(pair.result[2].list, pair.maps[2], data.records,
                         PairLayout(2))
        /\ NodeIds(pair.result[1].list, pair.heap)
             = NodeIds(pair.result[2].list, pair.heap)

\* C16 witness: both loaders have returned one body from a stream whose
\* second record has attributes and whose first record refers to the second.
C16_Witness ==
    /\ pair.pc = <<"returned", "returned">>
    /\ Len(data.records) = 2
    /\ RefersToIn(data.records, 1, 2)
    /\ data.records[2].attributes # NullPtr
    /\ data.records[2].name = "body"
    /\ Len(pair.result[1].list) = 1
    /\ Len(pair.result[2].list) = 1
    /\ pair.heap[pair.result[2].list[1]].attributes # None

\* C20: over one record's field list, the cursor stands one past the number
\* of successful reads, and the fields those reads returned are the first
\* fields of the list, in order: each successful read has consumed exactly
\* one field and the cursor has never moved back.
C20_EachReadConsumesOneField ==
    cursor.on =>
        /\ cursor.cur.index = 1 + Len(cursor.consumed)
        /\ cursor.cur.index \in 1..Len(cursor.cur.fields) + 1
        /\ cursor.consumed
             = SubSeq(cursor.cur.fields, 1, Len(cursor.consumed))

\* C20 witness: two reads of different kinds have succeeded on a list of
\* three fields.
C20_Witness ==
    /\ cursor.on
    /\ ~cursor.failed
    /\ Len(cursor.cur.fields) = 3
    /\ Len(cursor.consumed) = 2
    /\ cursor.consumed[1].kind # cursor.consumed[2].kind
    /\ cursor.cur.index = 3

\* --------------------------------------------------------------- C21 .. C30
\* C21 as stated: a read past the last field or for a kind other than the
\* next field's hands back no value, and the read that failed raised a
\* FormatError that names the field position and the id of the record the
\* cursor was opened for.
C21_FailedReadNamesRecordAndPosition ==
    /\ cursor.on =>
          \A kind \in ReadKinds :
              (\/ cursor.cur.index > Len(cursor.cur.fields)
               \/ cursor.cur.fields[cursor.cur.index].kind # kind)
                 => ~ReadField(cursor.cur, kind).ok
    /\ cursor.failed =>
          /\ cursor.err.type = "FormatError"
          /\ cursor.err.position = cursor.cur.index
          /\ cursor.err.has_record
          /\ cursor.err.record = cursor.record

\* The record the last pass of the loop worked on.
LastVisited == IF pc = "raised" THEN pos ELSE pos - 1

\* The names of the steps of the last pass, in order.
StepOps == [k \in 1..Len(steps) |-> steps[k].op]

\* C23: the steps of a pass over a record are, in this order: get_entity for
\* the record's identity, the assignment of the id, the attributes link with
\* its factory call if the record's attributes are not null, the parse step,
\* and the factory calls parse makes; parse is called on the record's node
\* with the record's fields, and at that moment the node carries the record's
\* id and, if the attributes are not null, its attributes link.
C23_StepsOfAPassInOrder ==
    steps # <<>> =>
        LET i == LastVisited
            attrs == IF records[i].attributes # NullPtr
                     THEN <<"get_entity", "attributes">> ELSE <<>>
            refs == IF error = "none" /\ \E j \in 1..Len(records) : RefersTo(i, j)
                    THEN <<"get_entity">> ELSE <<>>
            at == 3 + Len(attrs)
        IN  /\ i \in 1..Len(records)
            /\ StepOps = <<"get_entity", "id">> \o attrs \o <<"parse">> \o refs
            /\ steps[1].node = NodeOf(i)
            /\ steps[2].node = NodeOf(i)
            /\ steps[at].node = NodeOf(i)
            /\ steps[at].fields = records[i].data
            /\ steps[at].was.has_id
            /\ steps[at].was.id = records[i].id
            /\ (steps[at].was.attributes # None)
                  = (records[i].attributes # NullPtr)

\* C23 witness: the pass over a face record with attributes and a reference
\* to the other record has made its five steps and the factory call of parse.
C23_Witness ==
    /\ pc = "loading"
    /\ pos = 2
    /\ RefersTo(1, 2)
    /\ records[1].attributes # NullPtr
    /\ StepOps = <<"get_entity", "id", "get_entity", "attributes", "parse",
                   "get_entity">>
    /\ steps[6].node = NodeOf(2)

\* The first call of the log for the record identity of call k.
FirstCall(k) ==
    CHOOSE j \in 1..k :
        /\ calls[j].uid = calls[k].uid
        /\ \A h \in 1..j - 1 : calls[h].uid # calls[k].uid

\* C24: every get_entity call returns the node the first call for the same
\* record identity returned, and that node is of the class the registry
\* gives for the type name of that first call (AcisEntity when the name is
\* not registered), whatever type names the later calls gave; the node is
\* the one the map holds, as it was built.
C24_TypeFixedByFirstCall ==
    \A k \in 1..Len(calls) :
        LET first == calls[FirstCall(k)]
            cls == IF first.type \in DOMAIN ENTITY_TYPES
                   THEN ENTITY_TYPES[first.type] ELSE "AcisEntity"
        IN  /\ calls[k].ret = first.ret
            /\ HasKey(entities, calls[k].uid)
            /\ Lookup(entities, calls[k].uid) = first.ret
            /\ heap[first.ret].cls = cls
            /\ pc = "constructed" => heap[first.ret] = NewNode(cls)

\* C24 witness: a record identity first asked for as "body" and then as
\* "face", with Face registered, has a Body node.
C24_Witness ==
    /\ pc = "constructed"
    /\ Len(calls) >= 2
    /\ calls[1].uid = calls[2].uid
    /\ calls[1].type = "body"
    /\ calls[2].type = "face"
    /\ "face" \in DOMAIN ENTITY_TYPES
    /\ heap[calls[2].ret].cls = "Body"
    /\ Len(heap) = 1

\* The map holds one entry for every record of the stream and no other.
OneEntryPerRecord(ents) ==
    /\ Len(ents) = Len(records)
    /\ \A i \in 1..Len(records) :
          Cardinality({k \in 1..Len(ents) : ents[k].uid = Uid(i)}) = 1

\* Every entry of the map is still there, at its place, with its node.
EntriesKept ==
    /\ Len(entities') >= Len(entities)
    /\ \A k \in 1..Len(entities) : entities'[k] = entities[k]

\* C25 as stated: when load_entities has returned the map holds one entry
\* per record; no step removes or overwrites an entry; and the map is empty
\* whenever load_entities is entered.
C25_MapEmptyAtEveryStart ==
    [][/\ Done' => OneEntryPerRecord(entities')
       /\ EntriesKept
       /\ runs' = runs + 1 => entities = <<>>]_vars

\* C25 amended: when load_entities has returned the map holds one entry per
\* record; no step removes or overwrites an entry; the map is empty when the
\* loader is constructed, and so when load_entities is entered the first
\* time; entered again, load_entities finds the map the last run left.
C25_MapGrowsFromEmptyConstruction ==
    [][/\ Done' => OneEntryPerRecord(entities')
       /\ EntriesKept
       /\ pc' = "constructed" => entities' = <<>>
       /\ (runs' = runs + 1 /\ runs = 0) => entities = <<>>
       /\ (runs' = runs + 1 /\ runs > 0) =>
             OneEntryPerRecord(entities)]_vars

\* C25 witness: a client's loader has returned from a second run over two
\* records, with two entries in its map.
C25_Witness ==
    /\ owner = "client"
    /\ Done
    /\ runs = 2
    /\ Len(records) = 2
    /\ Len(entities) = 2

\* C26: no step of a second or later run of load_entities on a loader that
\* has completed, nor the bodies() call after it, changes the map or the
\* heap: no node is created, every key keeps its node, every node its id
\* and links; and bodies() returns the list it returned before, each node
\* once.
C26_SecondRunChangesNothing ==
    [][runs' >= 2 =>
        /\ entities' = entities
        /\ heap' = heap
        /\ error' = "none"
        /\ result'.given
        /\ result'.list = result.list
        /\ \A k \in 1..Len(result'.list) :
              Occurrences(result'.list, result'.list[k]) = 1]_vars

\* C26 witness: the second run over a stream of a face record that refers
\* to a body record with attributes has returned the bodies again.
C26_Witness ==
    /\ runs = 2
    /\ pc = "returned"
    /\ trace[Len(trace)] = "bodies"
    /\ trace[Len(trace) - 1] = "load_entities"
    /\ Len(records) = 2
    /\ RefersTo(1, 2)
    /\ records[2].name = "body"
    /\ records[2].attributes # NullPtr
    /\ result.list = <<NodeOf(2)>>
    /\ Len(heap) = 2

\* C27: without Matplotlib, use_matplotlib is False after construction and
\* after every assignment of True or False; with Matplotlib it is True until
\* the first assignment and the value last assigned from then on.
C27_UseMatplotlibNeedsMatplotlib ==
    OptionsLive =>
        /\ ~addon.MATPLOTLIB => use_matplotlib(addon) = FALSE
        /\ (addon.MATPLOTLIB /\ addon.assigned = <<>>) =>
              use_matplotlib(addon) = TRUE
        /\ (addon.MATPLOTLIB /\ addon.assigned # <<>>) =>
              use_matplotlib(addon) = addon.assigned[1]

\* C27 witness: True was assigned to use_matplotlib without Matplotlib.
C27_Witness ==
    /\ OptionsLive
    /\ ~addon.MATPLOTLIB
    /\ addon.op = "use_matplotlib"
    /\ addon.assigned = <<TRUE>>
    /\ use_matplotlib(addon) = FALSE

\* The cached attribute is what getboolean makes of the stored text.
CacheAgrees(o) ==
    /\ IsBooleanText(o._config["LOG_UNPROCESSED_TAGS"])
    /\ o.log_unprocessed_tags = get_bool(o._config, "LOG_UNPROCESSED_TAGS")

\* C28 as stated: after every operation on an Options object (set, read_file,
\* write, reset) log_unprocessed_tags agrees with the LOG_UNPROCESSED_TAGS
\* text of the configuration, and a write() that reaches the stream emits the
\* text most recently stored for the key.
C28_CacheAgreesAndWriteEmitsStored ==
    [][(addon'.module = "options" /\ addon'.constructed) =>
        /\ CacheAgrees(addon')
        /\ (addon'.op = "write" /\ addon'.fp # <<>>) =>
              addon'.fp[1]["LOG_UNPROCESSED_TAGS"] =
                  addon.stored["LOG_UNPROCESSED_TAGS"]]_vars

\* The caches and the font manager of the fonts module.
FontCaches(f) ==
    <<f.font_face_cache, f.font_measurement_cache, f.font_manager>>

\* C29: a call of load with reload=False while font_face_cache is not empty
\* leaves both caches and the font manager as they were and reads no cache
\* file; and every call of load that changes a cache found font_face_cache
\* empty or was given reload=True.
C29_LoadSkipsWhenCached ==
    [][(FontsLive /\ addon'.op = "load") =>
        /\ (addon.font_face_cache # {} /\ ~addon'.reload) =>
              /\ FontCaches(addon') = FontCaches(addon)
              /\ addon'.read = {}
              /\ addon'.files = addon.files
              /\ addon'.err = "none"
        /\ FontCaches(addon') # FontCaches(addon) =>
              addon.font_face_cache = {} \/ addon'.reload]_vars

\* C29 witness: load(reload=False) has returned with the caches it found,
\* although the directory holds a face cache file with other entries.
C29_Witness ==
    /\ FontsLive
    /\ addon.op = "load"
    /\ ~addon.reload
    /\ addon.read = {}
    /\ addon.font_face_cache # {}
    /\ \E path \in CachePaths :
          /\ addon.files[path].font_face_cache.exists
          /\ addon.files[path].font_face_cache.keys # addon.font_face_cache
          /\ addon.files[path].font_measurement_cache.exists
          /\ addon.files[path].font_measurement_cache.keys #
                 addon.font_measurement_cache

\* C22: off_loads raises ParsingError, or returns a mesh with as many
\* vertices and as many faces as the header declares; no other exception
\* leaves it.
C22_ParsingErrorOrDeclaredCounts ==
    (addon.module = "meshex" /\ addon.op = "off_loads") =>
        \/ addon.ret.err = "ParsingError"
        \/ /\ addon.ret.err = "none"
           /\ Len(addon.ret.vertices) = addon.ret.n_vertices
           /\ Len(addon.ret.faces) = addon.ret.n_faces

\* C30: the bytes stl_dumpb returns start with 80 bytes of signature and a
\* 4-byte count, and the count is the number of 50-byte records that make up
\* the rest; stl_loadb reads that many faces back.
C30_CountIsNumberOfRecords ==
    /\ (addon.module = "meshex" /\ addon.op = "stl_dumpb"
           /\ addon.ret.err = "none") =>
          LET bytes == addon.ret.bytes
          IN  /\ bytes[1].size = 80
              /\ bytes[2].size = 4
              /\ \A k \in 3..Len(bytes) : bytes[k].size = 50
              /\ (BufferLen(bytes) - 84) % 50 = 0
              /\ bytes[2].value[1] = (BufferLen(bytes) - 84) \div 50
    /\ (addon.module = "meshex" /\ addon.op = "stl_loadb") =>
          /\ addon.ret.err = "none"
          /\ 84 + 50 * Len(addon.ret.faces) = BufferLen(addon.input)

\* C30 witness: a mesh of a face without area and a triangle was written as
\* one record with a count of one.
C30_Witness ==
    /\ addon.module = "meshex"
    /\ addon.op = "stl_dumpb"
    /\ addon.ret.err = "none"
    /\ Len(addon.input) = 2
    /\ Degenerate(addon.input[1])
    /\ ~Degenerate(addon.input[2])
    /\ Len(addon.ret.bytes) = 3
    /\ addon.ret.bytes[2].value = <<1>>

====
